---------------------------- MODULE Spec2Model ----------------------------
(***************************************************************************)
(* UnorderedMap<Key, Value> built on the doubly-linked List<NodeType>.     *)
(* All entries live in one List; every bucket descriptor holds a pair of   *)
(* List iterators (begin, end).  The model keeps the List as the code      *)
(* keeps it: node addresses with prev/next pointers, two sentinel nodes,   *)
(* and a size_ counter.  Bucket descriptors hold raw node addresses, so a  *)
(* descriptor can refer to a node that has been deallocated.               *)
(*                                                                         *)
(* A call that dereferences a node that is not a constructed entry (a      *)
(* sentinel's payload, a sentinel's unset link, a deallocated node), that  *)
(* indexes the bucket table outside its size, or that never leaves a scan  *)
(* loop, has no defined result: the operators return Fault for it and the  *)
(* action records ub = TRUE, after which nothing more is specified.        *)
(***************************************************************************)
EXTENDS Integers, Sequences, FiniteSets, TLC

\* ---------------------------------------------------------------- bounds
MaxNodes == 3          \* entry-node addresses the allocator can hand out
MaxKey == 2            \* keys are 0..MaxKey
MaxVal == 1            \* values are 0..MaxVal, 0 is Value()
MaxBuckets == 4        \* largest bucket table built
InitBuckets == 2       \* bucket_count passed to the constructor
MaxCalls == 5          \* calls made on the map after its construction

Keys == 0..MaxKey
Values == 0..MaxVal

\* ------------------------------------------------------------- addresses
Null == 0              \* nullptr / a link that was never set
HeadAddr == -1         \* head_ sentinel (allocated, payload never constructed)
TailAddr == -2         \* tail_ sentinel
Fault == -9            \* no defined result (see the header)
NoVal == -1            \* payload of storage that holds no constructed entry

Addrs == 1..MaxNodes

Hash(k) == k
DefaultValue == 0
MaxLoadFactor == 1

\* ------------------------------------------------------------------ List
\* List(const Allocator&): two sentinels linked to each other.  pool is the
\* set of addresses the allocator can give to entry nodes; nodes is the set
\* of those that hold a constructed entry; leaked is the set of those that
\* were allocated and neither linked into the list nor deallocated.
NewList(pool) ==
  [head_ |-> HeadAddr, tail_ |-> TailAddr, size_ |-> 0,
   next |-> [a \in pool \cup {HeadAddr, TailAddr} |->
               IF a = HeadAddr THEN TailAddr ELSE Null],
   prev |-> [a \in pool \cup {HeadAddr, TailAddr} |->
               IF a = TailAddr THEN HeadAddr ELSE Null],
   key |-> [a \in pool \cup {HeadAddr, TailAddr} |-> NoVal],
   val |-> [a \in pool \cup {HeadAddr, TailAddr} |-> NoVal],
   nodes |-> {}, leaked |-> {}]

Pool(L) == DOMAIN L.next \ {L.head_, L.tail_}

ListBegin(L) == L.next[L.head_]
ListEnd(L) == L.tail_

\* an iterator that may be dereferenced: a constructed entry node
IsEntry(L, it) == it \in L.nodes
\* an iterator whose links may be read by emplace/move_node as a position:
\* an entry or the tail sentinel, not nullptr (the end() of a list whose
\* sentinels were moved away)
IsPos(L, it) == it # Null /\ (it \in L.nodes \/ it = L.tail_)
\* a node whose links may be written through a neighbour's pointer
\* (pos->prev->next = ..., pos->next->prev = ...): allocated storage, that is
\* an entry or a sentinel, not nullptr and not a deallocated node
IsLinked(L, n) == n # Null /\ (n \in L.nodes \/ n = L.head_ \/ n = L.tail_)

FreeAddrs(L) == Pool(L) \ (L.nodes \cup L.leaked)

\* List::emplace(pos, args...) with the node placed at address a.
ListEmplace(L, pos, k, v, a) ==
  LET next_node == pos
      prev_node == L.prev[pos]
  IN [L EXCEPT !.next = [L.next EXCEPT ![a] = next_node, ![prev_node] = a],
               !.prev = [L.prev EXCEPT ![a] = prev_node, ![next_node] = a],
               !.key[a] = k, !.val[a] = v,
               !.nodes = L.nodes \cup {a},
               !.size_ = L.size_ + 1]

\* List::erase(pos): unlink, destroy, deallocate.  The iterator returned is
\* the old successor.
ListErase(L, pos) ==
  IF pos = ListEnd(L) THEN L
  ELSE LET prev_node == L.prev[pos]
           next_node == L.next[pos]
           n1 == [L.next EXCEPT ![prev_node] = next_node]
           p1 == [L.prev EXCEPT ![next_node] = prev_node]
       IN [L EXCEPT !.next = [n1 EXCEPT ![pos] = Null],
                    !.prev = [p1 EXCEPT ![pos] = Null],
                    !.key[pos] = NoVal, !.val[pos] = NoVal,
                    !.nodes = L.nodes \ {pos},
                    !.size_ = L.size_ - 1]

\* a move_node that exchanges the payloads of the two nodes and relinks
\* nothing
ListMoveNodeByValue(L, from, to) ==
  [L EXCEPT !.key = [L.key EXCEPT ![from] = L.key[to], ![to] = L.key[from]],
            !.val = [L.val EXCEPT ![from] = L.val[to], ![to] = L.val[from]]]

\* a move_node without its write of node_to_move->prev
ListMoveNodeNoBackLink(L, from, to) ==
  LET n1 == [L.next EXCEPT ![L.prev[from]] = L.next[from]]
      p1 == [L.prev EXCEPT ![n1[from]] = L.prev[from]]
      prev_node == p1[to]
      n2 == [n1 EXCEPT ![prev_node] = from]
      p2 == [p1 EXCEPT ![to] = from]
      n3 == [n2 EXCEPT ![from] = to]
  IN [L EXCEPT !.next = n3, !.prev = p2]

\* List::move_node(from, to): the six pointer writes, in source order.
ListMoveNode(L, from, to) ==
  LET n1 == [L.next EXCEPT ![L.prev[from]] = L.next[from]]
      p1 == [L.prev EXCEPT ![n1[from]] = L.prev[from]]
      prev_node == p1[to]
      n2 == [n1 EXCEPT ![prev_node] = from]
      p2 == [p1 EXCEPT ![to] = from]
      p3 == [p2 EXCEPT ![from] = prev_node]
      n3 == [n2 EXCEPT ![from] = to]
  IN [L EXCEPT !.next = n3, !.prev = p3]

\* A loop over a well-formed list meets each entry once: one that takes more
\* steps than Fuel(L) does not end.
Fuel(L) == Cardinality(L.nodes) + 1

\* The nodes met by `for (it = begin(); it != end(); ++it)`.  A walk that
\* leaves the constructed entries before it meets the tail, or does not end,
\* ends with the element Fault.
RECURSIVE Walk(_, _, _)
Walk(L, it, fuel) ==
  IF it = ListEnd(L) THEN << >>
  ELSE IF fuel = 0 \/ ~IsEntry(L, it) THEN <<Fault>>
  ELSE <<it>> \o Walk(L, L.next[it], fuel - 1)

\* begin() reads head_->next: no defined result when head_ is nullptr
ListSeq(L) == IF L.head_ = Null THEN <<Fault>> ELSE Walk(L, ListBegin(L), Fuel(L))
Faulty(seq) == Len(seq) > 0 /\ seq[Len(seq)] = Fault

\* List::clear(): destroy and deallocate every entry, relink the sentinels;
\* without sentinels only size_ is reset.
ListClear(L) ==
  IF L.head_ = Null \/ L.tail_ = Null THEN [L EXCEPT !.size_ = 0]
  ELSE
  [L EXCEPT !.next = [a \in DOMAIN L.next |-> IF a = L.head_ THEN L.tail_ ELSE Null],
            !.prev = [a \in DOMAIN L.next |-> IF a = L.tail_ THEN L.head_ ELSE Null],
            !.key = [a \in DOMAIN L.next |-> NoVal],
            !.val = [a \in DOMAIN L.next |-> NoVal],
            !.nodes = {},
            !.size_ = 0]

\* --------------------------------------------------------- UnorderedMap
\* A map is [elements |-> List, buckets |-> sequence of [begin, end]];
\* buckets[i] of the code is buckets[i + 1] here.
EndBucket(L) == [begin |-> ListEnd(L), end |-> ListEnd(L)]

\* UnorderedMap(bucket_count, ...)
NewMap(n, pool) ==
  [elements |-> NewList(pool),
   buckets |-> [i \in 1..n |-> EndBucket(NewList(pool))]]

bucket_count(M) == Len(M.buckets)
size(M) == M.elements.size_
InTable(M, index) == index < Len(M.buckets)

get_bucket_index(M, k) ==
  IF Len(M.buckets) = 0 THEN 0 ELSE Hash(k) % Len(M.buckets)

\* load_factor() > max_load_factor(), in doubles: x/0 is +inf for x > 0 and
\* NaN (which compares false) for x = 0.
LoadExceeded(M) ==
  IF bucket_count(M) = 0 THEN size(M) > 0
  ELSE size(M) > MaxLoadFactor * bucket_count(M)

\* What an operation hands back: the map, the iterator and flag returned,
\* fault (no defined result) and oom (List::emplace threw: the allocation of
\* the node failed, or the construction of its payload did).
Ret(M, it, ok) == [M |-> M, it |-> it, ok |-> ok, fault |-> FALSE, oom |-> FALSE]
Faulted(M) == [M |-> M, it |-> Fault, ok |-> FALSE, fault |-> TRUE, oom |-> FALSE]
NoMemory(M) == [M |-> M, it |-> Null, ok |-> FALSE, fault |-> FALSE, oom |-> TRUE]

\* for (it = b.begin; it != b.end; ++it) if (key_equal(it->first, k)) return it;
\* the node found, NotFound when the loop ends, Fault when it dereferences
\* something that is not a constructed entry or does not end.
NotFound == -8
RECURSIVE Scan(_, _, _, _, _)
Scan(L, it, end, k, fuel) ==
  IF it = end THEN NotFound
  ELSE IF fuel = 0 \/ ~IsEntry(L, it) THEN Fault
  ELSE IF L.key[it] = k THEN it
  ELSE Scan(L, L.next[it], end, k, fuel - 1)

ScanBucket(M, index, k) ==
  Scan(M.elements, M.buckets[index + 1].begin, M.buckets[index + 1].end, k,
       Fuel(M.elements))

\* ---- rehash
\* the inner loop of rehash over one bucket's recorded iterators
RECURSIVE RehashGroup(_, _, _)
RehashGroup(st, iters, j) ==
  IF j > Len(iters) THEN st
  ELSE LET old_it == iters[j]
           moved == IF old_it # st.cur
                    THEN [L |-> ListMoveNode(st.L, old_it, st.cur), cur |-> old_it]
                    ELSE st
       IN RehashGroup([L |-> moved.L, cur |-> moved.L.next[moved.cur]],
                      iters, j + 1)

\* one pass of the outer loop of rehash, for bucket_index
RehashBucket(st, bucket_index, bucket_iters) ==
  IF bucket_iters[bucket_index + 1] = << >> THEN st
  ELSE LET begin == st.cur
           g == RehashGroup([L |-> st.L, cur |-> st.cur],
                            bucket_iters[bucket_index + 1], 1)
       IN [L |-> g.L, cur |-> g.cur,
           buckets |-> [st.buckets EXCEPT ![bucket_index + 1] =
                                              [begin |-> begin, end |-> g.cur]]]

\* the outer loop of rehash for bucket_index = lo, lo + 1, ..., hi - 1, in
\* that order: the lower half of the indices, then the upper half.  cur is a
\* position of the list and never Null; the test on it only makes the lower
\* half be worked out before the upper half is entered.
RECURSIVE RehashBuckets(_, _, _, _)
RehashBuckets(st, lo, hi, bucket_iters) ==
  IF lo >= hi THEN st
  ELSE IF hi = lo + 1 THEN RehashBucket(st, lo, bucket_iters)
  ELSE LET mid == (lo + hi) \div 2
           lower == RehashBuckets(st, lo, mid, bucket_iters)
       IN IF lower.cur = Null THEN lower
          ELSE RehashBuckets(lower, mid, hi, bucket_iters)

BucketIters(L, seq, new_size) ==
  [i \in 1..new_size |->
     SelectSeq(seq, LAMBDA n : Hash(L.key[n]) % new_size = i - 1)]

\* move_node writes through the prev pointers of the nodes it moves and
\* moves before: each has to lead to allocated storage
BackLinked(L, seq) ==
  \A n \in {seq[i] : i \in DOMAIN seq} \cup {L.tail_} : IsLinked(L, L.prev[n])

\* a rehash that takes the requested count as it is, without the clamp
rehashUnclamped(M, n) ==
  LET L == M.elements
      new_size == n
      fresh == [i \in 1..new_size |-> EndBucket(L)]
      seq == ListSeq(L)
  IN IF new_size = Len(M.buckets) /\ L.size_ # 0 THEN Ret(M, Null, FALSE)
     ELSE IF L.size_ = 0 THEN Ret([M EXCEPT !.buckets = fresh], Null, FALSE)
     ELSE IF Faulty(seq) \/ ~BackLinked(L, seq) THEN Faulted(M)
     ELSE LET st == RehashBuckets([L |-> L, cur |-> ListBegin(L), buckets |-> fresh],
                                  0, new_size, BucketIters(L, seq, new_size))
          IN Ret([elements |-> st.L, buckets |-> st.buckets], Null, FALSE)

\* a rehash that rebuilds the table also when the bucket count stays the same
rehashAlways(M, n) ==
  LET L == M.elements
      min_required_buckets == L.size_ \div MaxLoadFactor
      new_size == IF n < min_required_buckets THEN min_required_buckets ELSE n
      fresh == [i \in 1..new_size |-> EndBucket(L)]
      seq == ListSeq(L)
  IN IF L.size_ = 0 THEN Ret([M EXCEPT !.buckets = fresh], Null, FALSE)
     ELSE IF Faulty(seq) \/ ~BackLinked(L, seq) THEN Faulted(M)
     ELSE LET st == RehashBuckets([L |-> L, cur |-> ListBegin(L), buckets |-> fresh],
                                  0, new_size, BucketIters(L, seq, new_size))
          IN Ret([elements |-> st.L, buckets |-> st.buckets], Null, FALSE)

rehash(M, n) ==
  LET L == M.elements
      min_required_buckets == L.size_ \div MaxLoadFactor
      new_size == IF n < min_required_buckets THEN min_required_buckets ELSE n
      fresh == [i \in 1..new_size |-> EndBucket(L)]
      seq == ListSeq(L)
  IN IF new_size = Len(M.buckets) /\ L.size_ # 0 THEN Ret(M, Null, FALSE)
     ELSE IF L.size_ = 0 THEN Ret([M EXCEPT !.buckets = fresh], Null, FALSE)
     ELSE IF Faulty(seq) \/ ~BackLinked(L, seq) THEN Faulted(M)
     ELSE LET st == RehashBuckets([L |-> L, cur |-> ListBegin(L), buckets |-> fresh],
                                  0, new_size, BucketIters(L, seq, new_size))
          IN Ret([elements |-> st.L, buckets |-> st.buckets], Null, FALSE)

check_rehash(M) ==
  IF LoadExceeded(M) THEN rehash(M, bucket_count(M) * 2) ELSE Ret(M, Null, FALSE)

reserve(M, count) ==
  LET c0 == count \div MaxLoadFactor
      new_bucket_count == IF c0 = 0 /\ count > 0 THEN 1 ELSE c0
  IN IF new_bucket_count > bucket_count(M) THEN rehash(M, new_bucket_count)
     ELSE Ret(M, Null, FALSE)

\* ---- emplace / insert
\* the tail repair both emplace and insert do after filling an empty bucket
RepairPrev(M, index, new_it) ==
  LET L == M.elements
  IN IF new_it # ListBegin(L)
     THEN LET prev_node == L.prev[new_it]
              prev_index == get_bucket_index(M, L.key[prev_node])
          IN IF prev_index # index /\ M.buckets[prev_index + 1].end = ListEnd(L)
             THEN [M EXCEPT !.buckets[prev_index + 1].end = new_it]
             ELSE M
     ELSE M

\* emplace(args...) after check_rehash, the node constructed at address a
EmplaceBody(M0, k, v, a) ==
  LET temp_it == a
      L1 == ListEmplace(M0.elements, ListEnd(M0.elements), k, v, a)
      M1 == [M0 EXCEPT !.elements = L1]
      index == get_bucket_index(M1, k)
  IN IF ~IsPos(M0.elements, ListEnd(M0.elements)) THEN Faulted(M0)
     ELSE IF ~IsLinked(M0.elements, M0.elements.prev[ListEnd(M0.elements)])
     THEN Faulted(M0)
     ELSE IF ~InTable(M1, index) THEN Faulted(M1)
     ELSE LET it == ScanBucket(M1, index, k)
          IN IF it = Fault THEN Faulted(M1)
             ELSE IF it # NotFound
             THEN Ret([M1 EXCEPT !.elements = ListErase(L1, temp_it)], it, FALSE)
             ELSE IF M1.buckets[index + 1].begin = ListEnd(L1)
             THEN LET M2 == [M1 EXCEPT !.buckets[index + 1] =
                                        [begin |-> temp_it, end |-> L1.next[temp_it]]]
                  IN Ret(RepairPrev(M2, index, temp_it), temp_it, TRUE)
             ELSE IF ~IsPos(L1, M1.buckets[index + 1].end) THEN Faulted(M1)
             ELSE IF ~IsLinked(L1, L1.prev[M1.buckets[index + 1].end])
             THEN Faulted(M1)
             ELSE Ret([M1 EXCEPT !.elements =
                          ListMoveNode(L1, temp_it, M1.buckets[index + 1].end)],
                      temp_it, TRUE)

emplace(M, k, v, a) ==
  LET r == check_rehash(M)
  IN IF r.fault THEN r
     ELSE IF a = Null THEN NoMemory(r.M)
     ELSE EmplaceBody(r.M, k, v, a)

\* insert(const NodeType&) and insert(NodeType&&): the same steps
InsertBody(M0, k, v, a) ==
  LET L0 == M0.elements
      index == get_bucket_index(M0, k)
  IN IF ~InTable(M0, index) THEN Faulted(M0)
     ELSE LET it == ScanBucket(M0, index, k)
          IN IF it = Fault THEN Faulted(M0)
             ELSE IF it # NotFound THEN Ret(M0, it, FALSE)
             ELSE IF a = Null THEN NoMemory(M0)
             ELSE IF M0.buckets[index + 1].begin = ListEnd(L0)
             THEN IF ~IsPos(L0, ListEnd(L0)) \/ ~IsLinked(L0, L0.prev[ListEnd(L0)])
                  THEN Faulted(M0)
                  ELSE
                  LET L1 == ListEmplace(L0, ListEnd(L0), k, v, a)
                      M1 == [M0 EXCEPT !.elements = L1,
                                       !.buckets[index + 1] =
                                           [begin |-> a, end |-> L1.next[a]]]
                  IN Ret(RepairPrev(M1, index, a), a, TRUE)
             ELSE IF ~IsPos(L0, M0.buckets[index + 1].end) THEN Faulted(M0)
             ELSE IF ~IsLinked(L0, L0.prev[M0.buckets[index + 1].end])
             THEN Faulted(M0)
             ELSE Ret([M0 EXCEPT !.elements =
                          ListEmplace(L0, M0.buckets[index + 1].end, k, v, a)],
                      a, TRUE)

insert(M, k, v, a) ==
  LET r == check_rehash(M)
  IN IF r.fault THEN r ELSE InsertBody(r.M, k, v, a)

\* ---- erase(pos), pos an iterator to a constructed entry or end()
erase(M, pos) ==
  LET L == M.elements
  IN IF pos = ListEnd(L) THEN Ret(M, ListEnd(L), FALSE)
     ELSE LET index == get_bucket_index(M, L.key[pos])
          IN IF ~InTable(M, index) THEN Faulted(M)
             ELSE IF ~IsLinked(L, L.prev[pos]) \/ ~IsLinked(L, L.next[pos])
             THEN Faulted(M)
             ELSE LET bucket == M.buckets[index + 1]
                      it == pos
                      it_next == L.next[pos]
                      next_it == it_next
                      L1 == ListErase(L, pos)
                      b1 == IF bucket.begin = it /\ bucket.end = it_next
                            THEN EndBucket(L1)
                            ELSE [begin |-> IF bucket.begin = it THEN next_it
                                            ELSE bucket.begin,
                                  end |-> IF bucket.end = it_next THEN next_it
                                          ELSE bucket.end]
                  IN Ret([elements |-> L1,
                          buckets |-> [M.buckets EXCEPT ![index + 1] = b1]],
                         next_it, TRUE)

\* ---- find / at / operator[]
\* find(key): the node found, end() (the tail), or Fault
find(M, k) ==
  LET index == get_bucket_index(M, k)
  IN IF ~InTable(M, index) THEN Fault
     ELSE LET it == ScanBucket(M, index, k)
          IN IF it = NotFound THEN ListEnd(M.elements) ELSE it

\* at(key): the value, OutOfRange when find returns end(), Fault
OutOfRange == -7
at(M, k) ==
  LET it == find(M, k)
  IN IF it = Fault THEN Fault
     ELSE IF it = ListEnd(M.elements) THEN OutOfRange
     ELSE M.elements.val[it]

\* operator[](key): emplace(key, Value()); the reference returned is to the
\* node emplace returned
subscript(M, k, a) == emplace(M, k, DefaultValue, a)

\* ---- clear
clear(M) ==
  LET L == M.elements
  IN IF L.head_ # Null /\ L.tail_ # Null /\ Faulty(ListSeq(L)) THEN Faulted(M)
     ELSE LET L1 == ListClear(L)
          IN Ret([elements |-> L1,
                  buckets |-> [i \in 1..Len(M.buckets) |-> EndBucket(L1)]],
                 Null, FALSE)

\* ---- copy constructor
\* UnorderedMap(const UnorderedMap& other): a new map with other's bucket
\* count, then emplace of every pair of other in other's list order.  The
\* copy is its own object with its own List; it holds no deallocated node
\* in a descriptor, so which free address a node gets does not matter and
\* the lowest is taken.
LowestFree(L) == CHOOSE a \in FreeAddrs(L) : \A b \in FreeAddrs(L) : a <= b

RECURSIVE CopyPairs(_, _, _, _)
CopyPairs(C, other, seq, j) ==
  IF j > Len(seq) THEN Ret(C, Null, TRUE)
  ELSE LET r == emplace(C, other.elements.key[seq[j]], other.elements.val[seq[j]],
                        LowestFree(C.elements))
       IN IF r.fault THEN r ELSE CopyPairs(r.M, other, seq, j + 1)

CopyConstruct(other) ==
  LET seq == ListSeq(other.elements)
  IN IF Faulty(seq) THEN Faulted(other)
     ELSE CopyPairs(NewMap(bucket_count(other), Pool(other.elements)), other, seq, 1)

\* ------------------------------------------------------------ the state
VARIABLES
  elements,   \* the map's List<NodeType>
  buckets,    \* the map's std::vector<Bucket>
  copy,       \* what the map built by the last call, a copy construction, holds;
              \* under SpecMove, the second map that moves and swaps work with
  assigned,   \* per key, the value last given to it while inserted and not erased
  last,       \* the last call: its name, arguments and what it returned
  ub,         \* the last call had no defined result
  calls       \* the number of calls made so far

vars == <<elements, buckets, copy, assigned, last, ub, calls>>

Map == [elements |-> elements, buckets |-> buckets]

\* What is seen of a copy: its size() and, per key, what at(key) gives.
NoCopy == [made |-> FALSE]
Seen(C) ==
  [made |-> TRUE, size |-> size(C), at |-> [k \in Keys |-> at(C, k)],
   pairs |-> {<<C.elements.key[n], C.elements.val[n]>> : n \in C.elements.nodes}]
Call(op, k, v, it, ok) == [op |-> op, key |-> k, val |-> v, it |-> it, ok |-> ok]

Init ==
  /\ elements = NewMap(InitBuckets, Addrs).elements
  /\ buckets = NewMap(InitBuckets, Addrs).buckets
  /\ copy = NoCopy
  /\ assigned = [k \in Keys |-> NoVal]
  /\ last = Call("new", NoVal, NoVal, Null, FALSE)
  /\ ub = FALSE
  /\ calls = 0

\* a call can be made: the previous one returned, and the budget is not spent
Ready == ~ub /\ calls < MaxCalls
\* The address the allocator returns: any that holds no constructed node,
\* so a deallocated address that a bucket descriptor still holds may be
\* handed out again.  Free addresses no descriptor holds are interchangeable
\* and the lowest stands for them.  Null when none is free.
Held == {buckets[i].begin : i \in DOMAIN buckets} \cup {buckets[i].end : i \in DOMAIN buckets}
Unheld == FreeAddrs(elements) \ Held
AddrChoice ==
  IF FreeAddrs(elements) = {} THEN {Null}
  ELSE (FreeAddrs(elements) \cap Held)
       \cup {a \in Unheld : \A b \in Unheld : a <= b}

\* the doubling of check_rehash stays within the largest table built
GrowthInBounds == LoadExceeded(Map) => 2 * bucket_count(Map) <= MaxBuckets

\* the state after a call that returned r
Returns(op, k, v, r, a2) ==
  /\ ~r.oom
  /\ ub' = r.fault
  /\ elements' = IF r.fault THEN elements ELSE r.M.elements
  /\ buckets' = IF r.fault THEN buckets ELSE r.M.buckets
  /\ assigned' = IF r.fault THEN assigned ELSE a2
  /\ last' = Call(op, k, v, r.it, r.ok)
  /\ copy' = NoCopy
  /\ calls' = calls + 1

Inserted(k, v) == IF assigned[k] = NoVal THEN [assigned EXCEPT ![k] = v] ELSE assigned

Insert(k, v) ==
  /\ Ready /\ GrowthInBounds
  /\ \E a \in AddrChoice : Returns("insert", k, v, insert(Map, k, v, a), Inserted(k, v))

Emplace(k, v) ==
  /\ Ready /\ GrowthInBounds
  /\ \E a \in AddrChoice : Returns("emplace", k, v, emplace(Map, k, v, a), Inserted(k, v))

\* m[k]
Subscript(k) ==
  /\ Ready /\ GrowthInBounds
  /\ \E a \in AddrChoice :
       Returns("subscript", k, NoVal, subscript(Map, k, a), Inserted(k, DefaultValue))

\* m[k] = v: the store goes through the reference operator[] returned
Assign(k, v) ==
  /\ Ready /\ GrowthInBounds
  /\ \E a \in AddrChoice :
       LET r == subscript(Map, k, a)
           stored == IF r.fault \/ r.oom THEN r
                     ELSE IF ~IsEntry(r.M.elements, r.it) THEN Faulted(r.M)
                     ELSE [r EXCEPT !.M.elements.val[r.it] = v]
       IN Returns("assign", k, v, stored, [assigned EXCEPT ![k] = v])

\* erase(pos) for an iterator the caller can hold: an entry or end()
Erase(pos) ==
  /\ Ready
  /\ Returns("erase", IF pos = ListEnd(elements) THEN NoVal ELSE elements.key[pos],
             NoVal, erase(Map, pos),
             IF pos = ListEnd(elements) THEN assigned
             ELSE [assigned EXCEPT ![elements.key[pos]] = NoVal])

Rehash(n) ==
  /\ Ready
  /\ Returns("rehash", n, NoVal, rehash(Map, n), assigned)

Reserve(n) ==
  /\ Ready
  /\ Returns("reserve", n, NoVal, reserve(Map, n), assigned)

Clear ==
  /\ Ready
  /\ Returns("clear", NoVal, NoVal, clear(Map), [k \in Keys |-> NoVal])

Find(k) ==
  /\ Ready
  /\ LET it == find(Map, k)
     IN /\ last' = Call("find", k, NoVal, it, it # Fault /\ it # ListEnd(elements))
        /\ ub' = (it = Fault)
  /\ copy' = NoCopy
  /\ calls' = calls + 1
  /\ UNCHANGED <<elements, buckets, assigned>>

At(k) ==
  /\ Ready
  /\ LET v == at(Map, k)
     IN /\ last' = Call("at", k, v, find(Map, k), v # Fault /\ v # OutOfRange)
        /\ ub' = (v = Fault)
  /\ copy' = NoCopy
  /\ calls' = calls + 1
  /\ UNCHANGED <<elements, buckets, assigned>>

Copy ==
  /\ Ready
  /\ \E r \in {CopyConstruct(Map)} :
        /\ copy' = IF r.fault THEN NoCopy ELSE Seen(r.M)
        /\ ub' = r.fault
        /\ last' = Call("copy", NoVal, NoVal, r.it, r.ok)
  /\ calls' = calls + 1
  /\ UNCHANGED <<elements, buckets, assigned>>

Next ==
  \/ \E k \in Keys, v \in Values : Insert(k, v)
  \/ \E k \in Keys, v \in Values : Emplace(k, v)
  \/ \E k \in Keys : Subscript(k)
  \/ \E k \in Keys, v \in Values : Assign(k, v)
  \/ \E pos \in elements.nodes \cup {ListEnd(elements)} : Erase(pos)
  \/ \E n \in 0..MaxBuckets : Rehash(n)
  \/ \E n \in 0..MaxBuckets : Reserve(n)
  \/ Clear
  \/ \E k \in Keys : Find(k)
  \/ \E k \in Keys : At(k)
  \/ Copy

Spec == Init /\ [][Next]_vars


\* ---------------------------------------------- the default-constructed map
\* UnorderedMap(): INIT_BUCKET_SIZE buckets.  Distinct keys 0, 1, 2, ... are
\* inserted one after the other, each by insert or by emplace, until
\* GrowExtra keys more than INIT_BUCKET_SIZE are in; find may be called in
\* between.  Here calls counts the insertions made, which is the next key.
INIT_BUCKET_SIZE == 16
GrowExtra == 2
GrowKeys == 0..(INIT_BUCKET_SIZE + GrowExtra - 1)
GrowAddrs == 1..(INIT_BUCKET_SIZE + GrowExtra)

InitDefault ==
  /\ elements = NewMap(INIT_BUCKET_SIZE, GrowAddrs).elements
  /\ buckets = NewMap(INIT_BUCKET_SIZE, GrowAddrs).buckets
  /\ copy = NoCopy
  /\ assigned = [k \in GrowKeys |-> NoVal]
  /\ last = Call("new", NoVal, NoVal, Null, FALSE)
  /\ ub = FALSE
  /\ calls = 0

GrowInsert ==
  /\ ~ub /\ calls \in GrowKeys
  /\ \E a \in AddrChoice :
       Returns("insert", calls, DefaultValue,
               insert(Map, calls, DefaultValue, a), Inserted(calls, DefaultValue))

GrowEmplace ==
  /\ ~ub /\ calls \in GrowKeys
  /\ \E a \in AddrChoice :
       Returns("emplace", calls, DefaultValue,
               emplace(Map, calls, DefaultValue, a), Inserted(calls, DefaultValue))

GrowFind(k) ==
  /\ ~ub
  /\ LET it == find(Map, k)
     IN /\ last' = Call("find", k, NoVal, it, it # Fault /\ it # ListEnd(elements))
        /\ ub' = (it = Fault)
  /\ copy' = NoCopy
  /\ UNCHANGED <<elements, buckets, assigned, calls>>

NextDefault ==
  \/ GrowInsert
  \/ GrowEmplace
  \/ \E k \in GrowKeys : GrowFind(k)

SpecDefault == InitDefault /\ [][NextDefault]_vars

\* ------------------------------------------------------- move and swap
\* Two map objects: the map of the state (elements, buckets) and another
\* object, held whole in copy as Other(...).  Each object's List has its own
\* record of node storage.
OtherBuckets == 3

\* a List after its sentinels and nodes were taken by a move
ListMovedFrom(L) ==
  [L EXCEPT !.head_ = Null, !.tail_ = Null, !.size_ = 0, !.nodes = {},
            !.leaked = {},
            !.next = [a \in DOMAIN L.next |-> Null],
            !.prev = [a \in DOMAIN L.next |-> Null],
            !.key = [a \in DOMAIN L.next |-> NoVal],
            !.val = [a \in DOMAIN L.next |-> NoVal]]

\* List(List&& other): the new list and what is left of other
ListMoveCtor(other) == [dst |-> other, src |-> ListMovedFrom(other), fault |-> FALSE]

\* List::operator=(List&& other) on the list L (another object than other)
ListMoveAssign(L, other) ==
  IF L.head_ # Null /\ L.tail_ # Null /\ Faulty(ListSeq(L))
  THEN [dst |-> L, src |-> other, fault |-> TRUE]
  ELSE [dst |-> other, src |-> ListMovedFrom(other), fault |-> FALSE]

\* std::swap(a, b) on two Lists: T tmp(move(a)); a = move(b); b = move(tmp)
ListStdSwap(a, b) ==
  LET tmp == ListMoveCtor(a)
      a1 == ListMoveAssign(tmp.src, b)
      b1 == ListMoveAssign(a1.src, tmp.dst)
  IN [a |-> a1.dst, b |-> b1.dst]

\* UnorderedMap(UnorderedMap&& other); the moved-from vector is empty
MoveConstruct(other) ==
  LET l == ListMoveCtor(other.elements)
  IN [dst |-> [elements |-> l.dst, buckets |-> other.buckets],
      src |-> [elements |-> l.src, buckets |-> << >>],
      fault |-> FALSE]

\* M = std::move(other), M another object than other
MoveAssign(M, other) ==
  LET c == clear(M)
      l == ListMoveAssign(c.M.elements, other.elements)
  IN IF c.fault \/ l.fault THEN [dst |-> M, src |-> other, fault |-> TRUE]
     ELSE [dst |-> [elements |-> l.dst, buckets |-> other.buckets],
           src |-> [elements |-> l.src, buckets |-> << >>],
           fault |-> FALSE]

\* a.swap(b)
swap(a, b) ==
  LET l == ListStdSwap(a.elements, b.elements)
  IN [a |-> [elements |-> l.a, buckets |-> b.buckets],
      b |-> [elements |-> l.b, buckets |-> a.buckets]]

\* the other object, with the values its keys were given
Other(M, asg) ==
  [made |-> TRUE, elements |-> M.elements, buckets |-> M.buckets, assigned |-> asg]
OtherMap == [elements |-> copy.elements, buckets |-> copy.buckets]
AssignedOf(M) ==
  [k \in Keys |->
     IF \E n \in M.elements.nodes : M.elements.key[n] = k
     THEN M.elements.val[CHOOSE n \in M.elements.nodes : M.elements.key[n] = k]
     ELSE NoVal]

\* UnorderedMap<Key, Value> b(OtherBuckets); b.insert({k, v});
MakeOther(k, v) ==
  /\ Ready /\ ~copy.made
  /\ LET r == insert(NewMap(OtherBuckets, Addrs), k, v, 1)
     IN copy' = Other(r.M, AssignedOf(r.M))
  /\ last' = Call("other", k, v, Null, TRUE)
  /\ calls' = calls + 1
  /\ UNCHANGED <<elements, buckets, assigned, ub>>

\* UnorderedMap<Key, Value> d(std::move(m)); the state's map is the source
MoveCtor ==
  /\ Ready
  /\ LET r == MoveConstruct(Map)
     IN /\ elements' = r.src.elements
        /\ buckets' = r.src.buckets
        /\ copy' = Other(r.dst, assigned)
  /\ assigned' = [k \in Keys |-> NoVal]
  /\ last' = Call("move_ctor", NoVal, NoVal, Null, TRUE)
  /\ ub' = FALSE
  /\ calls' = calls + 1

\* d = std::move(m) for the other object d; the state's map is the source
MoveAssignTo ==
  /\ Ready /\ copy.made
  /\ LET r == MoveAssign(OtherMap, Map)
     IN /\ elements' = IF r.fault THEN elements ELSE r.src.elements
        /\ buckets' = IF r.fault THEN buckets ELSE r.src.buckets
        /\ copy' = IF r.fault THEN copy ELSE Other(r.dst, assigned)
        /\ assigned' = IF r.fault THEN assigned ELSE [k \in Keys |-> NoVal]
        /\ ub' = r.fault
  /\ last' = Call("move_assign", NoVal, NoVal, Null, TRUE)
  /\ calls' = calls + 1

\* m.swap(b) for the other object b
Swap ==
  /\ Ready /\ copy.made
  /\ LET r == swap(Map, OtherMap)
     IN /\ elements' = r.a.elements
        /\ buckets' = r.a.buckets
        /\ copy' = Other(r.b, assigned)
  /\ assigned' = copy.assigned
  /\ last' = Call("swap", NoVal, NoVal, Null, TRUE)
  /\ ub' = FALSE
  /\ calls' = calls + 1

\* for (auto& p : m) over the state's map
Iterate ==
  /\ Ready
  /\ ub' = Faulty(ListSeq(elements))
  /\ last' = Call("iterate", NoVal, NoVal, Null, ~Faulty(ListSeq(elements)))
  /\ copy' = NoCopy
  /\ calls' = calls + 1
  /\ UNCHANGED <<elements, buckets, assigned>>

NextMove ==
  \/ \E k \in Keys, v \in Values : Insert(k, v)
  \/ \E k \in Keys, v \in Values : Emplace(k, v)
  \/ \E pos \in elements.nodes \cup {ListEnd(elements)} : Erase(pos)
  \/ \E n \in 0..MaxBuckets : Rehash(n)
  \/ Clear
  \/ \E k \in Keys : Find(k)
  \/ Iterate
  \/ \E k \in Keys, v \in Values : MakeOther(k, v)
  \/ MoveCtor
  \/ MoveAssignTo
  \/ Swap

SpecMove == Init /\ [][NextMove]_vars

\* ------------------------------------------------------------ exceptions
\* List::emplace allocates the node, then constructs its payload, then links
\* the node.  r is the call as far as the allocation (made with a = Null, so
\* that r.oom says the call reached List::emplace without finding the key).
\* The allocation throws std::bad_alloc (a = Null), or it returns address a
\* and the construction of the payload throws: nothing deallocates a.
ConstructThrows(r, a) ==
  IF r.oom /\ a # Null
  THEN [r EXCEPT !.M.elements.leaked = r.M.elements.leaked \cup {a}]
  ELSE r

insert_throws(M, k, v, a) == ConstructThrows(insert(M, k, v, Null), a)
emplace_throws(M, k, v, a) == ConstructThrows(emplace(M, k, v, Null), a)

\* the state after a call that threw out of List::emplace
Throws(op, k, v, r, a) ==
  /\ r.oom
  /\ elements' = r.M.elements
  /\ buckets' = r.M.buckets
  /\ last' = Call(op, k, v, a, FALSE)
  /\ ub' = FALSE
  /\ copy' = NoCopy
  /\ calls' = calls + 1
  /\ UNCHANGED assigned

InsertThrows(k, v) ==
  /\ Ready /\ GrowthInBounds
  /\ \E a \in FreeAddrs(elements) \cup {Null} :
       Throws("insert_throws", k, v, insert_throws(Map, k, v, a), a)

EmplaceThrows(k, v) ==
  /\ Ready /\ GrowthInBounds
  /\ \E a \in FreeAddrs(elements) \cup {Null} :
       Throws("emplace_throws", k, v, emplace_throws(Map, k, v, a), a)

NextThrow ==
  \/ \E k \in Keys, v \in Values : Insert(k, v)
  \/ \E k \in Keys, v \in Values : Emplace(k, v)
  \/ \E pos \in elements.nodes \cup {ListEnd(elements)} : Erase(pos)
  \/ \E n \in 0..MaxBuckets : Rehash(n)
  \/ \E k \in Keys, v \in Values : InsertThrows(k, v)
  \/ \E k \in Keys, v \in Values : EmplaceThrows(k, v)

SpecThrow == Init /\ [][NextThrow]_vars

\* ------------------------------------------------------------ range erase
\* erase(first, last), last written last_: while (first != last) first =
\* erase(first); the iterator returned is last.  A loop that reaches end()
\* before last calls
\* erase(end()), which returns end(), for ever.
RECURSIVE EraseLoop(_, _, _, _)
EraseLoop(M, first, last_, fuel) ==
  IF first = last_ THEN Ret(M, last_, TRUE)
  ELSE IF fuel = 0 \/ ~IsEntry(M.elements, first) THEN Faulted(M)
  ELSE LET r == erase(M, first)
       IN IF r.fault THEN r ELSE EraseLoop(r.M, r.it, last_, fuel - 1)

erase_range(M, first, last_) == EraseLoop(M, first, last_, Fuel(M.elements))

\* the positions of the list from begin() to end(), end() included
Positions(L) == ListSeq(L) \o <<ListEnd(L)>>

\* erase(first, last) for a range of the list: last is first or comes after
\* it.  The call record holds first as key and last as val.
EraseRange(a, b) ==
  /\ Ready
  /\ ~Faulty(ListSeq(elements))
  /\ a \in DOMAIN Positions(elements) /\ b \in DOMAIN Positions(elements) /\ a <= b
  /\ LET first == Positions(elements)[a]
         last_ == Positions(elements)[b]
         gone == {Positions(elements)[i] : i \in a..(b - 1)}
     IN Returns("erase_range", first, last_, erase_range(Map, first, last_),
                [k \in Keys |->
                   IF \E n \in gone : elements.key[n] = k THEN NoVal ELSE assigned[k]])

NextRange ==
  \/ \E k \in Keys, v \in Values : Insert(k, v)
  \/ \E a, b \in 1..(MaxNodes + 1) : EraseRange(a, b)
  \/ \E n \in 0..MaxBuckets : Rehash(n)
  \/ \E k \in Keys : Find(k)

SpecRange == Init /\ [][NextRange]_vars

\* ------------------------------------------------------- the List alone
\* A List<NodeType> used through its own interface: emplace before any
\* position, erase of any entry, move_node of any entry before any other
\* position.  elements is the list; the bucket table is not involved.  The
\* call record of move_node holds from as key, to as val and the iterator
\* returned as it.
ListCall(op, k, v, it, L) ==
  /\ Ready
  /\ elements' = L
  /\ last' = Call(op, k, v, it, TRUE)
  /\ calls' = calls + 1
  /\ UNCHANGED <<buckets, copy, assigned, ub>>

ListEmplaceAt(pos, k, v) ==
  \E a \in FreeAddrs(elements) :
    ListCall("list_emplace", k, v, a, ListEmplace(elements, pos, k, v, a))

ListEraseAt(pos) ==
  ListCall("list_erase", elements.key[pos], NoVal, elements.next[pos],
           ListErase(elements, pos))

MoveNode(from, to) ==
  /\ from # to
  /\ ListCall("move_node", from, to, from, ListMoveNode(elements, from, to))

NextList ==
  \/ \E pos \in elements.nodes \cup {ListEnd(elements)}, k \in Keys, v \in Values :
       ListEmplaceAt(pos, k, v)
  \/ \E pos \in elements.nodes : ListEraseAt(pos)
  \/ \E from \in elements.nodes, to \in elements.nodes \cup {ListEnd(elements)} :
       MoveNode(from, to)

SpecList == Init /\ [][NextList]_vars

\* ------------------------------------------------- longer runs of calls
\* insert, emplace and erase alone, every value Value(), in runs of up to
\* LongCalls calls: long enough for a node to be erased, its address handed
\* out again, and that node erased again.
LongCalls == 11

ReadyLong == ~ub /\ calls < LongCalls

LongInsert(k) ==
  /\ ReadyLong /\ GrowthInBounds
  /\ \E a \in AddrChoice :
       Returns("insert", k, DefaultValue, insert(Map, k, DefaultValue, a),
               Inserted(k, DefaultValue))

LongEmplace(k) ==
  /\ ReadyLong /\ GrowthInBounds
  /\ \E a \in AddrChoice :
       Returns("emplace", k, DefaultValue, emplace(Map, k, DefaultValue, a),
               Inserted(k, DefaultValue))

LongErase(pos) ==
  /\ ReadyLong
  /\ Returns("erase", elements.key[pos], NoVal, erase(Map, pos),
             [assigned EXCEPT ![elements.key[pos]] = NoVal])

NextLong ==
  \/ \E k \in Keys : LongInsert(k)
  \/ \E k \in Keys : LongEmplace(k)
  \/ \E pos \in elements.nodes : LongErase(pos)

SpecLong == Init /\ [][NextLong]_vars

\* ----------------------------------------------------------- properties
ToSet(seq) == {seq[i] : i \in DOMAIN seq}

\* the nodes of [begin(i), end(i)), walked as bucket_size(i) walks them
RECURSIVE RangeWalk(_, _, _, _)
RangeWalk(L, it, end, fuel) ==
  IF it = end THEN << >>
  ELSE IF fuel = 0 \/ ~IsEntry(L, it) THEN <<Fault>>
  ELSE <<it>> \o RangeWalk(L, L.next[it], end, fuel - 1)

Range(M, i) ==
  RangeWalk(M.elements, M.buckets[i + 1].begin, M.buckets[i + 1].end,
            Fuel(M.elements))

\* the entries the list holds with key k
EntriesOf(M, k) == {n \in M.elements.nodes : M.elements.key[n] = k}
Present(M, k) == EntriesOf(M, k) # {}
Pairs(M) == {<<M.elements.key[n], M.elements.val[n]>> : n \in M.elements.nodes}
Found(M, k) ==
  LET it == find(M, k) IN IsEntry(M.elements, it) /\ M.elements.key[it] = k

\* the partition of the list by the bucket ranges
Partition(M) ==
  LET seq == ListSeq(M.elements)
  IN /\ ~Faulty(seq)
     /\ ToSet(seq) = M.elements.nodes
     /\ \A i \in 0..(bucket_count(M) - 1) :
          /\ ~Faulty(Range(M, i))
          /\ ToSet(Range(M, i)) =
               {n \in ToSet(seq) : Hash(M.elements.key[n]) % bucket_count(M) = i}
     /\ \A n \in ToSet(seq) :
          Cardinality({i \in 0..(bucket_count(M) - 1) : n \in ToSet(Range(M, i))}) = 1

\* C1: at every return point each bucket range [begin(i), end(i)) holds
\* exactly the list entries whose hash mod bucket_count() is i, and the
\* ranges cover every list entry exactly once.
C1_PartitionAtEveryReturn == Partition(Map)

\* C2: find(k) returns an iterator to a live entry with key k if and only if
\* an entry with key k was inserted and not erased since (the list holds
\* one); otherwise it returns end().  Stated for a map whose bucket table is
\* not empty.
C2_FindIffLive ==
  bucket_count(Map) > 0 =>
    \A k \in Keys :
      IF Present(Map, k) THEN Found(Map, k)
      ELSE find(Map, k) = ListEnd(elements)

\* C3: emplace returns (iterator, true) and grows size() by one iff no entry
\* with an equal key was present before the call, else leaves size()
\* unchanged and returns false; the iterator returned refers to a live
\* entry with the constructed key.
C3_EmplaceResult ==
  [][(last'.op = "emplace" /\ ~ub') =>
       /\ last'.ok <=> ~Present(Map, last'.key)
       /\ elements'.size_ = elements.size_ + (IF last'.ok THEN 1 ELSE 0)
       /\ IsEntry(elements', last'.it)
       /\ elements'.key[last'.it] = last'.key]_vars

\* C4: insert of a pair whose key is present leaves size() unchanged, returns
\* false and leaves the value stored for the key as it was; insert of an
\* absent key returns true and grows size() by one.
C4_InsertIdempotent ==
  [][(last'.op = "insert" /\ ~ub') =>
       IF Present(Map, last'.key)
       THEN /\ ~last'.ok
            /\ elements'.size_ = elements.size_
            /\ \A n \in EntriesOf(Map, last'.key) :
                 /\ n \in elements'.nodes
                 /\ elements'.key[n] = elements.key[n]
                 /\ elements'.val[n] = elements.val[n]
       ELSE /\ last'.ok
            /\ elements'.size_ = elements.size_ + 1]_vars

\* C5: after rehash(n) with n >= ceil(size()/max_load_factor()), find gives
\* for every key what it gave before (the same entry with the same value, or
\* end()), and bucket_count() >= n.  Stated for a rehash that leaves a bucket
\* table that is not empty.
C5_RehashKeepsFind ==
  [][(last'.op = "rehash" /\ ~ub' /\ last'.key >= elements.size_
        /\ Len(buckets') > 0) =>
       /\ Len(buckets') >= last'.key
       /\ \A k \in Keys :
            find(Map, k) # Fault =>
              /\ find([elements |-> elements', buckets |-> buckets'], k) = find(Map, k)
              /\ elements'.val[find(Map, k)] = elements.val[find(Map, k)]]_vars

\* C6: after erase(find(k)) for a key k that find found, find(k) returns
\* end(), and every other key that find found before is still found.
C6_EraseRoundTrip ==
  [][(last'.op = "erase" /\ ~ub' /\ last'.key # NoVal
        /\ Found(Map, last'.key)
        /\ find(Map, last'.key) \notin elements'.nodes) =>
       LET M2 == [elements |-> elements', buckets |-> buckets']
       IN /\ find(M2, last'.key) = ListEnd(elements')
          /\ \A j \in Keys \ {last'.key} : Found(Map, j) => Found(M2, j)]_vars

\* C7: at(key) returns the last value assigned to key for every key inserted
\* and not erased, and raises std::out_of_range for every other key.  Stated
\* for a map whose bucket table is not empty.
C7_AtLastAssigned ==
  bucket_count(Map) > 0 =>
    \A k \in Keys :
      at(Map, k) = IF assigned[k] # NoVal THEN assigned[k] ELSE OutOfRange

\* C8: operator[](k) inserts (k, Value()) when k is absent, so that size()
\* grows by one and find(k) succeeds afterwards, and leaves size() unchanged
\* when k is present; the reference returned is to the value of the live
\* entry for k.
C8_SubscriptInserts ==
  [][(last'.op = "subscript" /\ ~ub') =>
       LET M2 == [elements |-> elements', buckets |-> buckets']
       IN /\ elements'.size_ =
               elements.size_ + (IF Present(Map, last'.key) THEN 0 ELSE 1)
          /\ Found(M2, last'.key)
          /\ IsEntry(elements', last'.it)
          /\ elements'.key[last'.it] = last'.key]_vars

\* C9: a copy-constructed map holds exactly the (key, value) pairs of the
\* original: equal size(), and every key of either is found in the other
\* with an equal value.
C9_CopyHoldsSamePairs ==
  copy.made =>
    /\ copy.size = size(Map)
    /\ copy.pairs = Pairs(Map)
    /\ \A k \in Keys : copy.at[k] = at(Map, k)

\* C10: from 16 buckets, inserting distinct keys doubles bucket_count() (to
\* at least 32) before the entry is placed, so that when insert or emplace
\* returns load_factor() does not exceed max_load_factor() = 1.0.
C10_LoadFactorWithinMax ==
  (last.op \in {"insert", "emplace"} /\ ~ub) =>
    /\ size(Map) <= MaxLoadFactor * bucket_count(Map)
    /\ size(Map) > INIT_BUCKET_SIZE => bucket_count(Map) >= 2 * INIT_BUCKET_SIZE

\* the map after the step
MapNext == [elements |-> elements', buckets |-> buckets']

\* the step is a call of erase(pos) on the entry pos that returned
ErasedHere(pos) ==
  /\ last'.op = "erase" /\ ~ub'
  /\ pos \in elements.nodes /\ pos \notin elements'.nodes

\* C11: erase(pos) for an entry pos removes exactly that entry: size() goes
\* down by one, every other entry stays in the list with its key and value
\* and, if find found it before, find still finds it; the iterator returned
\* is the successor of pos in list order (end() if pos was last).
C11_EraseRemovesExactlyOne ==
  [][\A pos \in Addrs : ErasedHere(pos) =>
       /\ elements'.size_ = elements.size_ - 1
       /\ elements'.nodes = elements.nodes \ {pos}
       /\ \A n \in elements'.nodes :
            /\ elements'.key[n] = elements.key[n]
            /\ elements'.val[n] = elements.val[n]
            /\ find(Map, elements.key[n]) = n => find(MapNext, elements.key[n]) = n
       /\ last'.it = elements.next[pos]
       /\ IsPos(elements', last'.it)
       /\ ListSeq(elements') = SelectSeq(ListSeq(elements), LAMBDA n : n # pos)]_vars

\* the previous call erased an entry of bucket i, which left the bucket
\* without entries and with both ends reset, and this call is an insert of
\* another key of bucket i that returned true
ReinsertHere(i) ==
  /\ last.op = "erase" /\ last.key # NoVal
  /\ InTable(Map, i) /\ get_bucket_index(Map, last.key) = i
  /\ buckets[i + 1] = EndBucket(elements)
  /\ \A n \in elements.nodes : get_bucket_index(Map, elements.key[n]) # i
  /\ last'.op = "insert" /\ ~ub' /\ last'.ok
  /\ last'.key # last.key
  /\ get_bucket_index(Map, last'.key) = i

\* C12: after the sole entry of a bucket was erased and another key of the
\* same bucket is inserted, the bucket's range holds exactly the new entry
\* and no bucket descriptor refers to a node that is not a live entry (the
\* erased one).
C12_ReinsertAfterSoleErase ==
  [][\A i \in 0..(MaxBuckets - 1) : ReinsertHere(i) =>
       /\ Range(MapNext, i) = <<last'.it>>
       /\ \A j \in DOMAIN buckets' :
            /\ IsPos(elements', buckets'[j].begin)
            /\ IsPos(elements', buckets'[j].end)]_vars

\* the ranges of buckets i, i + 1, ..., bucket_count() - 1, one after the other
RECURSIVE ConcatRanges(_, _)
ConcatRanges(M, i) ==
  IF i >= bucket_count(M) THEN << >>
  ELSE Range(M, i) \o ConcatRanges(M, i + 1)

\* C13: the bucket ranges [begin(i), end(i)) taken in ascending bucket index
\* and put one after the other give the list from begin() to end().
C13_RangesConcatToList ==
  /\ ~Faulty(ListSeq(elements))
  /\ ConcatRanges(Map, 0) = ListSeq(elements)

\* the entries of the list that bucket i owns
Owned(M, i) == {n \in M.elements.nodes : get_bucket_index(M, M.elements.key[n]) = i}

\* C14: a bucket owns no entry if and only if its begin and end are both the
\* list's end sentinel; a bucket that owns an entry never has begin = end.
C14_EmptyIffBothEnd ==
  \A i \in 0..(bucket_count(Map) - 1) :
    /\ Owned(Map, i) = {} <=> buckets[i + 1] = EndBucket(elements)
    /\ Owned(Map, i) # {} => buckets[i + 1].begin # buckets[i + 1].end

\* the other object after the step
OtherNext == [elements |-> copy'.elements, buckets |-> copy'.buckets]
MoveOps == {"move_ctor", "move_assign"}

\* C15: after move construction or move assignment from a populated map the
\* destination holds exactly the entries the source held, in the same nodes,
\* its bucket ranges satisfy the partition invariant, and find succeeds in
\* it for every key the source held.
C15_MoveTransfersEntries ==
  [][(last'.op \in MoveOps /\ ~ub' /\ size(Map) > 0) =>
       /\ OtherNext.elements.nodes = elements.nodes
       /\ \A n \in elements.nodes :
            /\ OtherNext.elements.key[n] = elements.key[n]
            /\ OtherNext.elements.val[n] = elements.val[n]
       /\ size(OtherNext) = size(Map)
       /\ Partition(OtherNext)
       /\ \A k \in Keys : Present(Map, k) => Found(OtherNext, k)]_vars

\* C16: after move construction or move assignment the source is empty but
\* valid: size() is 0, and the next call on it (find, insert, emplace, clear,
\* iteration from begin() to end()) does what it does on an empty map.
C16_SourceEmptyButValid ==
  [][/\ (last'.op \in MoveOps /\ ~ub') => size(MapNext) = 0
     /\ (last.op \in MoveOps /\ ~ub
           /\ last'.op \in {"find", "insert", "emplace", "clear", "iterate"}) =>
          /\ ~ub'
          /\ last'.op = "find" => (~last'.ok /\ last'.it = ListEnd(elements'))
          /\ last'.op \in {"insert", "emplace"} =>
               (last'.ok /\ size(MapNext) = 1 /\ Found(MapNext, last'.key))
          /\ last'.op = "clear" => size(MapNext) = 0]_vars

\* C17: a.swap(b) gives a the entries and bucket_count b had and b those a
\* had; find in each gives what it gave in the other before; the partition
\* invariant holds in both; a second swap gives both maps back.  Stated for
\* two maps whose bucket tables are not empty.
C17_SwapExchanges ==
  [][(last'.op = "swap" /\ bucket_count(Map) > 0 /\ bucket_count(OtherMap) > 0) =>
       /\ Pairs(MapNext) = Pairs(OtherMap) /\ Pairs(OtherNext) = Pairs(Map)
       /\ MapNext.elements.nodes = OtherMap.elements.nodes
       /\ OtherNext.elements.nodes = Map.elements.nodes
       /\ bucket_count(MapNext) = bucket_count(OtherMap)
       /\ bucket_count(OtherNext) = bucket_count(Map)
       /\ \A k \in Keys : /\ find(MapNext, k) = find(OtherMap, k)
                          /\ find(OtherNext, k) = find(Map, k)
       /\ Partition(MapNext) /\ Partition(OtherNext)
       /\ swap(MapNext, OtherNext) = [a |-> Map, b |-> OtherMap]]_vars

ThrowOps == {"insert_throws", "emplace_throws"}

\* C18: when insert or emplace throws (the allocation of the node fails, or
\* the construction of the key/value does) the map is left as it was: the
\* same entries in the same list order, the same size(), the same
\* bucket_count() and the same bucket descriptors.
C18_ThrowLeavesMapUnchanged ==
  [][last'.op \in ThrowOps =>
       /\ ListSeq(elements') = ListSeq(elements)
       /\ elements'.nodes = elements.nodes
       /\ elements'.key = elements.key /\ elements'.val = elements.val
       /\ elements'.size_ = elements.size_
       /\ Len(buckets') = Len(buckets)
       /\ buckets' = buckets]_vars

\* C19: after a call in which the construction of the payload threw, every
\* allocated node is a sentinel or linked into the list: the storage of the
\* node was given back.
C19_NoLeakOnThrow ==
  last.op \in ThrowOps => elements.leaked = {}

\* C20: rehash, insert, emplace and erase leave every live entry other than
\* the one erased in its node with its key and value; rehash neither
\* constructs nor destroys a node; erase destroys the one node it was called
\* on; insert and emplace destroy no entry that was live before.
C20_NodeStability ==
  [][(last'.op \in {"rehash", "insert", "emplace", "erase"} /\ ~ub') =>
       /\ \A n \in elements.nodes \cap elements'.nodes :
            /\ elements'.key[n] = elements.key[n]
            /\ elements'.val[n] = elements.val[n]
       /\ last'.op = "rehash" => elements'.nodes = elements.nodes
       /\ last'.op \in {"insert", "emplace"} => elements.nodes \subseteq elements'.nodes
       /\ last'.op = "erase" =>
            /\ elements'.nodes \subseteq elements.nodes
            /\ \A n \in elements.nodes \ elements'.nodes :
                 /\ elements.key[n] = last'.key
                 /\ elements.nodes \ elements'.nodes = {n}]_vars

\* rehash(3) has put node 2 (key 0) in front of node 1 (key 1): both nodes
\* are live and hold what they held
C20_RehashRelinked ==
  /\ ~ub /\ last.op = "rehash" /\ last.key = 3
  /\ ListSeq(elements) = <<2, 1>>
  /\ elements.key[1] = 1 /\ elements.key[2] = 0

\* ceil(a / b) for naturals
CeilDiv(a, b) == (a + b - 1) \div b
\* ceil(size() / max_load_factor())
MinRequired(M) == CeilDiv(size(M), MaxLoadFactor)
MaxOf(a, b) == IF a >= b THEN a ELSE b

\* C21: after rehash(n), bucket_count() is max(n, ceil(size()/max_load_factor()))
\* unless the call changed nothing, and in every case bucket_count() *
\* max_load_factor() >= size(); a request below the current bucket count
\* shrinks the table no further than ceil(size()/max_load_factor()).
C21_RehashClampsUpward ==
  [][(last'.op = "rehash" /\ ~ub') =>
       /\ \/ Len(buckets') = MaxOf(last'.key, MinRequired(Map))
          \/ (buckets' = buckets /\ elements' = elements)
       /\ Len(buckets') * MaxLoadFactor >= size(MapNext)
       /\ size(MapNext) = size(Map)
       /\ last'.key < Len(buckets) => Len(buckets') >= MinRequired(Map)]_vars

\* rehash(n) with n below size() = 3 has left 3 buckets
C21_RequestBelowSize ==
  /\ ~ub /\ last.op = "rehash"
  /\ size(Map) = 3 /\ last.key < 3 /\ Len(buckets) = 3

\* C22: rehash(n) on a map that is not empty, with max(n, ceil(size() /
\* max_load_factor())) equal to bucket_count(), returns and changes nothing:
\* the list, every bucket descriptor, bucket_count() and size() are as before.
C22_RehashSameCountNoOp ==
  [][(last'.op = "rehash" /\ size(Map) > 0
        /\ MaxOf(last'.key, MinRequired(Map)) = Len(buckets)) =>
       /\ ~ub'
       /\ elements' = elements
       /\ ListSeq(elements') = ListSeq(elements)
       /\ buckets' = buckets
       /\ size(MapNext) = size(Map)]_vars

\* rehash(2) on the 2-bucket map holding key 1 then key 0: the list is still
\* in insertion order and the descriptors are those the inserts left
C22_SameCountKept ==
  /\ ~ub /\ last.op = "rehash" /\ last.key = 2
  /\ ListSeq(elements) = <<1, 2>>
  /\ elements.key[1] = 1 /\ elements.key[2] = 0
  /\ buckets = <<[begin |-> 2, end |-> TailAddr], [begin |-> 1, end |-> 2]>>

\* C23: clear() returns and leaves a map that is as one freshly constructed
\* with the same bucket count: size() is 0, no entry is left, bucket_count()
\* is unchanged, every bucket has begin = end = the list's end sentinel, and
\* find of any key returns end() (the last for a bucket table that is not
\* empty).
C23_ClearRebuildsTable ==
  [][last'.op = "clear" =>
       /\ ~ub'
       /\ size(MapNext) = 0 /\ elements'.nodes = {}
       /\ ListSeq(elements') = << >>
       /\ Len(buckets') = Len(buckets)
       /\ \A i \in DOMAIN buckets' : buckets'[i] = EndBucket(elements')
       /\ Len(buckets') > 0 => \A k \in Keys : find(MapNext, k) = ListEnd(elements')
       /\ MapNext = NewMap(Len(buckets), Pool(elements))]_vars

\* C24: on a map whose bucket count is 0, find(key) takes bucket index 0 and
\* returns end() for every key, and it reads no bucket descriptor outside
\* the bucket table (the call has a defined result).
C24_FindOnZeroBuckets ==
  [][(last'.op = "find" /\ bucket_count(Map) = 0) =>
       /\ get_bucket_index(Map, last'.key) = 0
       /\ ~ub'
       /\ last'.it = ListEnd(elements)]_vars

\* the list of M runs through the buckets in ascending bucket index
GroupedAscending(M) ==
  LET seq == ListSeq(M.elements)
  IN /\ ~Faulty(seq)
     /\ \A i, j \in DOMAIN seq :
          i < j => get_bucket_index(M, M.elements.key[seq[i]])
                     <= get_bucket_index(M, M.elements.key[seq[j]])

\* the positions in the list of the entries bucket b owns
GroupAt(M, b) ==
  LET seq == ListSeq(M.elements)
  IN {i \in DOMAIN seq : get_bucket_index(M, M.elements.key[seq[i]]) = b}

\* bucket b's descriptor is the first entry of its group and the position
\* just past the last one, or [end(), end()) when it owns no entry
ExactDescriptor(M, b) ==
  LET seq == ListSeq(M.elements)
      g == GroupAt(M, b)
      first == CHOOSE i \in g : \A j \in g : i <= j
      final == CHOOSE i \in g : \A j \in g : j <= i
  IN IF g = {} THEN M.buckets[b + 1] = EndBucket(M.elements)
     ELSE /\ M.buckets[b + 1].begin = seq[first]
          /\ M.buckets[b + 1].end = M.elements.next[seq[final]]

\* the step is a rehash of a map that is not empty which built a new table
RebuiltHere ==
  /\ last'.op = "rehash" /\ ~ub' /\ size(Map) > 0
  /\ MaxOf(last'.key, MinRequired(Map)) # Len(buckets)

\* C25: after a rehash that rebuilds the table of a map that is not empty,
\* the list is grouped by bucket in ascending bucket index, each bucket that
\* owns entries has for begin the first entry of its group and for end the
\* position just past the last, and each bucket that owns none has begin =
\* end = the end sentinel.
C25_RehashGroupsAscending ==
  [][RebuiltHere =>
       /\ GroupedAscending(MapNext)
       /\ \A b \in 0..(bucket_count(MapNext) - 1) : ExactDescriptor(MapNext, b)]_vars

\* the map the placement of insert / emplace works on: after check_rehash
Placed == check_rehash(Map).M

\* the step is an insert or emplace that returned true, of a key of bucket i
\* whose descriptor began at the end sentinel, onto a list whose last entry
\* is of another bucket j whose recorded end was the end sentinel
TailRepairHere(i, j) ==
  LET t == Placed.elements.prev[ListEnd(Placed.elements)]
  IN /\ last'.op \in {"insert", "emplace"} /\ ~ub' /\ last'.ok
     /\ InTable(Placed, i) /\ get_bucket_index(Placed, last'.key) = i
     /\ Placed.buckets[i + 1].begin = ListEnd(Placed.elements)
     /\ IsEntry(Placed.elements, t)
     /\ get_bucket_index(Placed, Placed.elements.key[t]) = j /\ j # i
     /\ Placed.buckets[j + 1].end = ListEnd(Placed.elements)

\* bucket j's range holds exactly the entries bucket j owns
ExactRange(M, j) ==
  /\ ~Faulty(Range(M, j))
  /\ ToSet(Range(M, j)) = Owned(M, j)

\* C26: when insert or emplace appends the first entry of an empty bucket at
\* the list tail and the previous last entry is of another bucket whose end
\* was the end sentinel, that bucket's end becomes the new entry and its
\* begin stays, so that its range, if it held exactly the bucket's own
\* entries, still holds exactly those; the new bucket's range is [new entry,
\* end sentinel) and holds the new entry alone.
C26_TailRepair ==
  [][\A i, j \in 0..(MaxBuckets - 1) : TailRepairHere(i, j) =>
       /\ elements'.next[Placed.elements.prev[ListEnd(Placed.elements)]] = last'.it
       /\ buckets'[j + 1].end = last'.it
       /\ buckets'[j + 1].begin = Placed.buckets[j + 1].begin
       /\ ExactRange(Placed, j) =>
            /\ Range(MapNext, j) = Range(Placed, j)
            /\ ExactRange(MapNext, j)
       /\ buckets'[i + 1] = [begin |-> last'.it, end |-> ListEnd(elements')]
       /\ Range(MapNext, i) = <<last'.it>>]_vars

\* the step is an insert or emplace, without a rehash, of a key that no entry
\* holds and whose bucket i owns an entry
JoinsBucketHere(i) ==
  /\ last'.op \in {"insert", "emplace"}
  /\ ~LoadExceeded(Map)
  /\ ~Present(Map, last'.key)
  /\ InTable(Map, i) /\ get_bucket_index(Map, last'.key) = i
  /\ Owned(Map, i) # {}

\* C27: insert or emplace, without a rehash, of a new key whose bucket is not
\* empty returns true and places the entry immediately before that bucket's
\* end: the bucket's range is what it was followed by the new entry (so the
\* bucket's entries are in insertion order), and the range of every other
\* bucket holds what it held.
C27_AppendsToBucketRange ==
  [][\A i \in 0..(MaxBuckets - 1) : JoinsBucketHere(i) =>
       /\ ~ub' /\ last'.ok
       /\ IsEntry(elements', last'.it)
       /\ last'.it \notin elements.nodes
       /\ elements'.next[last'.it] = buckets[i + 1].end
       /\ buckets'[i + 1].end = buckets[i + 1].end
       /\ Range(MapNext, i) = Range(Map, i) \o <<last'.it>>
       /\ \A j \in 0..(bucket_count(Map) - 1) :
            j # i => Range(MapNext, j) = Range(Map, j)]_vars

\* the step is an erase(pos) that returned, of an entry of bucket i, which
\* owns more than one entry
ErasedOneOfMany(pos, i) ==
  /\ ErasedHere(pos)
  /\ InTable(Map, i) /\ get_bucket_index(Map, elements.key[pos]) = i
  /\ Cardinality(Owned(Map, i)) > 1

\* C28: erase(pos) of an entry whose bucket owns more than one entry sets
\* whichever of that bucket's begin and end was pos to the successor of pos
\* and leaves the other as it was; the range of every other bucket holds
\* after the erase the entries it held before.
C28_EraseAdjustsBoundary ==
  [][\A pos \in Addrs : \A i \in 0..(MaxBuckets - 1) : ErasedOneOfMany(pos, i) =>
       /\ buckets'[i + 1].begin =
            IF buckets[i + 1].begin = pos THEN elements.next[pos]
            ELSE buckets[i + 1].begin
       /\ buckets'[i + 1].end =
            IF buckets[i + 1].end = pos THEN elements.next[pos]
            ELSE buckets[i + 1].end
       /\ \A j \in 0..(bucket_count(Map) - 1) :
            j # i => Range(MapNext, j) = Range(Map, j)]_vars

\* the entries of the range [first, last) of the list, first and last taken
\* from the record of the call
RangeErased(L, first, last_) ==
  LET pos == Positions(L)
      a == CHOOSE i \in DOMAIN pos : pos[i] = first
      b == CHOOSE i \in DOMAIN pos : pos[i] = last_
  IN {pos[i] : i \in a..(b - 1)}

\* C29: erase(first, last) returns and removes exactly the entries of the
\* list range [first, last): size() goes down by the length of the range,
\* every other entry stays and, if find found it before, find still finds
\* it; the iterator returned is last; the partition invariant holds after.
C29_RangeErase ==
  [][last'.op = "erase_range" =>
       LET gone == RangeErased(elements, last'.key, last'.val)
       IN /\ ~ub'
          /\ elements'.nodes = elements.nodes \ gone
          /\ size(MapNext) = size(Map) - Cardinality(gone)
          /\ \A n \in elements'.nodes :
               /\ elements'.key[n] = elements.key[n]
               /\ elements'.val[n] = elements.val[n]
               /\ find(Map, elements.key[n]) = n => find(MapNext, elements.key[n]) = n
          /\ last'.it = last'.val
          /\ Partition(MapNext)]_vars

\* every link of the list is matched by the link back
LinksConsistent(L) ==
  /\ \A n \in L.nodes \cup {L.head_} : L.prev[L.next[n]] = n
  /\ \A n \in L.nodes \cup {L.tail_} : L.next[L.prev[n]] = n

\* C30: move_node(from, to), for an entry from and a position to other than
\* from, changes pointers only: size(), the set of nodes and every payload
\* are as before; from lies immediately before to; the other nodes are in
\* the order they were in; prev and next links match each other; the
\* iterator returned is from; and when to was the successor of from the list
\* order is as before.
C30_MoveNodeRelinks ==
  [][last'.op = "move_node" =>
       LET from == last'.key
           to == last'.val
           others(seq) == SelectSeq(seq, LAMBDA n : n # from)
       IN /\ elements'.size_ = elements.size_
          /\ elements'.nodes = elements.nodes
          /\ elements'.key = elements.key /\ elements'.val = elements.val
          /\ ~Faulty(ListSeq(elements'))
          /\ ToSet(ListSeq(elements')) = elements.nodes
          /\ Len(ListSeq(elements')) = Len(ListSeq(elements))
          /\ elements'.next[from] = to /\ elements'.prev[to] = from
          /\ others(ListSeq(elements')) = others(ListSeq(elements))
          /\ LinksConsistent(elements')
          /\ last'.it = from
          /\ elements.next[from] = to => ListSeq(elements') = ListSeq(elements)]_vars

\* move_node has taken the last of three nodes to the front
C30_MovedToFront ==
  /\ last.op = "move_node" /\ last.key = 3 /\ last.val = 1
  /\ ListSeq(elements) = <<3, 1, 2>>

\* C31: after insert, emplace, erase, rehash and clear, each bucket
\* descriptor's begin and end is a live entry or the end sentinel (never an
\* erased node), and following next from begin reaches end within the list's
\* entries, so that a scan of the bucket ends inside the list.
C31_DescriptorsLive ==
  \A i \in 0..(bucket_count(Map) - 1) :
    /\ IsPos(elements, buckets[i + 1].begin)
    /\ IsPos(elements, buckets[i + 1].end)
    /\ ~Faulty(Range(Map, i))

\* C32: after insert, emplace, operator[], erase, rehash and copy, no two
\* entries of the list have equal keys, in the map and in a copy made of it.
C32_KeysDistinct ==
  /\ \A n1, n2 \in elements.nodes :
       elements.key[n1] = elements.key[n2] => n1 = n2
  /\ copy.made => copy.size = Cardinality({p[1] : p \in copy.pairs})

\* bucket_size(n): the steps from begin(n) to end(n), Fault for a walk that
\* leaves the list's entries
bucket_size(M, n) == IF Faulty(Range(M, n)) THEN Fault ELSE Len(Range(M, n))

\* bucket_size(i) + bucket_size(i + 1) + ... over the rest of the table;
\* Fault when one of the calls has no defined result
RECURSIVE SumBucketSizes(_, _)
SumBucketSizes(M, i) ==
  IF i >= bucket_count(M) THEN 0
  ELSE LET rest == SumBucketSizes(M, i + 1)
       IN IF bucket_size(M, i) = Fault \/ rest = Fault THEN Fault
          ELSE bucket_size(M, i) + rest

\* C33: in every reachable state size() is the number of entries met by
\* iterating from begin() to end(), and is the sum of bucket_size(i) over
\* every bucket index i.
C33_SizeCountsEntries ==
  /\ ~Faulty(ListSeq(elements))
  /\ size(Map) = Len(ListSeq(elements))
  /\ SumBucketSizes(Map, 0) = size(Map)

\* the (key, value) pairs met in bucket i's range, in the order of the walk
RangePairs(M, i) ==
  LET r == Range(M, i)
  IN [j \in DOMAIN r |->
        IF r[j] = Fault THEN Fault
        ELSE <<M.elements.key[r[j]], M.elements.val[r[j]]>>]

\* what a caller can see of the result of insert or emplace: the flag, the
\* pairs held, size() and what each bucket range holds
Observed(r) ==
  [fault |-> r.fault, ok |-> r.ok, pairs |-> Pairs(r.M), size |-> size(r.M),
   buckets |-> [i \in 1..bucket_count(r.M) |-> RangePairs(r.M, i - 1)]]

\* C34: from any reachable state and for any (key, value), insert(pair) and
\* emplace(key, value) return the same inserted flag and leave maps with the
\* same set of pairs, the same size() and the same entries in each bucket
\* range (the node allocated at the same address in both).
C34_InsertEmplaceEquivalent ==
  (~ub /\ GrowthInBounds) =>
    \A k \in Keys, v \in Values, a \in AddrChoice \ {Null} :
      Observed(insert(Map, k, v, a)) = Observed(emplace(Map, k, v, a))

\* -------------------------------------------------------- copy assignment
\* a = b for two map objects with equal allocators: the map of the state is
\* a, the other object b is held whole in copy as Other(...).  b is built by
\* inserts alone, into OtherBuckets buckets.

\* the addresses the allocator of M's list can return for the next node
HeldBy(M) ==
  {M.buckets[i].begin : i \in DOMAIN M.buckets}
    \cup {M.buckets[i].end : i \in DOMAIN M.buckets}
AddrChoiceOf(M) ==
  LET free == FreeAddrs(M.elements)
      unheld == free \ HeldBy(M)
  IN IF free = {} THEN {Null}
     ELSE (free \cap HeldBy(M)) \cup {a \in unheld : \A b \in unheld : a <= b}

\* for (const auto& pair : other) temp_elements.emplace_back(...)
TempElements(other) ==
  LET seq == ListSeq(other.elements)
  IN [j \in DOMAIN seq |->
        IF seq[j] = Fault THEN Fault
        ELSE <<other.elements.key[seq[j]], other.elements.val[seq[j]]>>]

\* for (const auto& element : temp_elements) emplace(element.first,
\* element.second): every result the allocator's choices allow
RECURSIVE EmplaceAll(_, _, _)
EmplaceAll(M, temp_elements, j) ==
  IF j > Len(temp_elements) THEN {Ret(M, Null, TRUE)}
  ELSE UNION {LET r == emplace(M, temp_elements[j][1], temp_elements[j][2], a)
              IN IF r.fault \/ r.oom THEN {r}
                 ELSE EmplaceAll(r.M, temp_elements, j + 1)
              : a \in AddrChoiceOf(M)}

\* operator=(const UnorderedMap& other), this another object than other and
\* the allocators equal: the branch that clears and rebuilds is not taken
copy_assign(M, other) ==
  LET new_size == size(other) \div MaxLoadFactor
      r == IF new_size > bucket_count(M) THEN rehash(M, new_size)
           ELSE Ret(M, Null, FALSE)
      temp_elements == TempElements(other)
  IN IF r.fault THEN {r}
     ELSE IF Faulty(ListSeq(other.elements)) THEN {Faulted(M)}
     ELSE EmplaceAll(r.M, temp_elements, 1)

\* b.insert({k, v}) on the other object, constructed with OtherBuckets
\* buckets by the first of these calls
OtherInsert(k, v) ==
  /\ Ready
  /\ LET B == IF copy.made THEN OtherMap ELSE NewMap(OtherBuckets, Addrs)
     IN /\ FreeAddrs(B.elements) # {}
        /\ LET r == insert(B, k, v, LowestFree(B.elements))
           IN /\ ~r.fault
              /\ copy' = Other(r.M, AssignedOf(r.M))
  /\ last' = Call("other_insert", k, v, Null, TRUE)
  /\ calls' = calls + 1
  /\ UNCHANGED <<elements, buckets, assigned, ub>>

\* a = b; other is a reference to const, b is only read
CopyAssign ==
  /\ Ready /\ copy.made
  /\ \E r \in copy_assign(Map, OtherMap) :
       /\ ~r.oom
       /\ ub' = r.fault
       /\ elements' = IF r.fault THEN elements ELSE r.M.elements
       /\ buckets' = IF r.fault THEN buckets ELSE r.M.buckets
       /\ assigned' = IF r.fault THEN assigned ELSE AssignedOf(r.M)
  /\ last' = Call("copy_assign", NoVal, NoVal, Null, TRUE)
  /\ calls' = calls + 1
  /\ UNCHANGED copy

NextAssign ==
  \/ \E k \in Keys, v \in Values : Insert(k, v)
  \/ \E pos \in elements.nodes \cup {ListEnd(elements)} : Erase(pos)
  \/ \E k \in Keys, v \in Values : OtherInsert(k, v)
  \/ CopyAssign

SpecAssign == Init /\ [][NextAssign]_vars

\* C35: after copy assignment a = b (distinct maps, same allocator), a holds
\* exactly the (key, value) pairs of b: entries of a whose key b does not
\* hold are gone, keys held by both carry b's value, a.size() == b.size(),
\* and b is unchanged.
C35_CopyAssignHoldsSamePairs ==
  [][last'.op = "copy_assign" =>
       /\ ~ub'
       /\ \A k \in Keys : ~Present(OtherMap, k) => ~Present(MapNext, k)
       /\ \A p \in Pairs(OtherMap) : Present(Map, p[1]) => p \in Pairs(MapNext)
       /\ Pairs(MapNext) = Pairs(OtherMap)
       /\ size(MapNext) = size(OtherMap)
       /\ copy' = copy]_vars

\* C36: on an empty map whose bucket count is 0 (after rehash(0), or built
\* with bucket_count 0), insert, emplace or operator[] of a key returns
\* without reading a bucket descriptor outside the table (the call has a
\* defined result), the key is found afterwards and size() is 1.
C36_InsertOnZeroBuckets ==
  [][(last'.op \in {"insert", "emplace", "subscript"}
        /\ bucket_count(Map) = 0 /\ size(Map) = 0) =>
       /\ ~ub'
       /\ size(MapNext) = 1
       /\ Found(MapNext, last'.key)]_vars

\* C37: reserve(n) never lowers bucket_count(): after it bucket_count() is at
\* least max(n, the bucket count before), and find gives for every key what
\* it gave before the call (the same entry with the same value, or end()).
C37_ReserveKeepsFind ==
  [][(last'.op = "reserve" /\ ~ub') =>
       /\ Len(buckets') >= MaxOf(last'.key, Len(buckets))
       /\ \A k \in Keys :
            find(Map, k) # Fault =>
              /\ find(MapNext, k) = find(Map, k)
              /\ IsEntry(elements, find(Map, k)) =>
                   elements'.val[find(Map, k)] = elements.val[find(Map, k)]]_vars

\* -------------------------------------- the List through its whole interface
\* emplace and insert before any position, erase of any entry, move_node of
\* any entry before any position (its own included), push_back, push_front,
\* pop_back and pop_front on a list that is not empty, and clear.  defined
\* says that the call reads and writes allocated nodes only; a call that
\* does not has no defined result.
ListOp(op, k, v, it, L, defined) ==
  /\ Ready
  /\ elements' = IF defined THEN L ELSE elements
  /\ ub' = ~defined
  /\ last' = Call(op, k, v, IF defined THEN it ELSE Fault, defined)
  /\ calls' = calls + 1
  /\ UNCHANGED <<buckets, copy, assigned>>

\* List::emplace(pos, ...) reads pos->prev and writes through it
EmplaceDefined(L, pos) == IsPos(L, pos) /\ IsLinked(L, L.prev[pos])
\* List::erase(pos) writes through pos->prev and pos->next
EraseDefined(L, pos) ==
  IsEntry(L, pos) /\ IsLinked(L, L.prev[pos]) /\ IsLinked(L, L.next[pos])
\* List::move_node(from, to) writes through from->prev, from->next and
\* to->prev
MoveDefined(L, from, to) ==
  /\ IsEntry(L, from) /\ IsPos(L, to)
  /\ IsLinked(L, L.prev[from]) /\ IsLinked(L, L.next[from])
  /\ IsLinked(L, L.prev[to])

ListEmplaceAny(op, pos, k, v) ==
  \E a \in FreeAddrs(elements) :
    ListOp(op, k, v, a, ListEmplace(elements, pos, k, v, a),
           EmplaceDefined(elements, pos))

ListEraseAny(op, pos) ==
  ListOp(op, IF IsEntry(elements, pos) THEN elements.key[pos] ELSE NoVal, NoVal,
         elements.next[pos], ListErase(elements, pos), EraseDefined(elements, pos))

\* move_node(from, to), to any position
MoveNodeAny(from, to) ==
  ListOp("move_node", from, to, from, ListMoveNode(elements, from, to),
         MoveDefined(elements, from, to))

PushBack(k, v) == ListEmplaceAny("push_back", ListEnd(elements), k, v)
PushFront(k, v) == ListEmplaceAny("push_front", ListBegin(elements), k, v)
\* pop_back(): erase(std::prev(end())); pop_front(): erase(begin())
PopBack == elements.size_ > 0 /\ ListEraseAny("pop_back", elements.prev[ListEnd(elements)])
PopFront == elements.size_ > 0 /\ ListEraseAny("pop_front", ListBegin(elements))

ClearList ==
  ListOp("list_clear", NoVal, NoVal, Null, ListClear(elements),
         ~Faulty(ListSeq(elements)))

NextListAll ==
  \/ \E pos \in elements.nodes \cup {ListEnd(elements)}, k \in Keys, v \in Values :
       ListEmplaceAny("list_emplace", pos, k, v)
  \/ \E pos \in elements.nodes \cup {ListEnd(elements)}, k \in Keys, v \in Values :
       ListEmplaceAny("list_insert", pos, k, v)
  \/ \E pos \in elements.nodes : ListEraseAny("list_erase", pos)
  \/ \E from \in elements.nodes, to \in elements.nodes \cup {ListEnd(elements)} :
       MoveNodeAny(from, to)
  \/ \E k \in Keys, v \in Values : PushBack(k, v)
  \/ \E k \in Keys, v \in Values : PushFront(k, v)
  \/ PopBack
  \/ PopFront
  \/ ClearList

SpecListAll == Init /\ [][NextListAll]_vars

\* C38: after any sequence of List emplace, insert, erase, move_node,
\* push_back / push_front, pop_back / pop_front and clear, following next
\* from the head sentinel reaches the tail sentinel through exactly size()
\* nodes, and n.next.prev == n for the head sentinel and every entry node.
C38_ListWellFormed ==
  /\ ~Faulty(ListSeq(elements))
  /\ Len(ListSeq(elements)) = elements.size_
  /\ ToSet(ListSeq(elements)) = elements.nodes
  /\ \A n \in elements.nodes \cup {elements.head_} :
       elements.prev[elements.next[n]] = n

=============================================================================
